---- MODULE Spec2Model ----
(***************************************************************************)
(* Model of tools/jobserver_pool.py: the GNU Make jobserver token pool     *)
(* manager.  One run of main() is modelled: argument values are drawn in   *)
(* Init, the manager's steps are actions, the child command tree is a set  *)
(* of clients acquiring and releasing tokens while subprocess.run waits.   *)
(***************************************************************************)
EXTENDS Integers, Sequences, FiniteSets, TLC

(* ---- bounds ---- *)
\* Capacity of the kernel buffer behind a pipe/FIFO, in bytes (65536 on
\* Linux), scaled down.  Job counts range past it so that a fill larger than
\* the buffer happens.
PipeCap == 3
\* Number of token clients in the child command tree.
NumClients == 2
\* Most releases of tokens that the releasing client does not hold.
MaxExtra == 2
\* The latest time in a .ninja_log and the number of commands in it.
MaxTime == 2
MaxTargets == 3

MaxJobs == PipeCap + 2
JobCounts == -1 .. MaxJobs
Clients == 1 .. NumClients
\* Exit statuses of the child command (2 keeps a child failure apart from
\* the 1 returned by the token check).
ExitCodes == {0, 2}

(* ---- values ---- *)
\* The three standard descriptors every process starts with.
StdFds == {0, 1, 2}
\* A local variable that has not been assigned.
Unbound == -1
\* The --fifo path (default os.path.abspath(_DEFAULT_NAME)) and --name.
FifoPath == "/cwd/jobserver_tokens"
SemName == "jobserver_tokens"

VarNames == {"PATH", "MAKEFLAGS"}
\* An environment maps a variable to its value; << >> is an absent variable.
Environs ==
  { [v \in VarNames |-> IF v = "PATH" THEN <<"/usr/bin">> ELSE m] :
      m \in { << >>, <<" -j2">> } }

Digits == <<"0", "1", "2", "3", "4", "5", "6", "7", "8", "9">>

RECURSIVE Dec(_)
\* Decimal formatting of a non-negative integer by an f-string, as the
\* sequence of its digit characters.
Dec(n) ==
  IF n < 10 THEN <<Digits[n + 1]>>
  ELSE Dec(n \div 10) \o <<Digits[(n % 10) + 1]>>

Min(a, b) == IF a <= b THEN a ELSE b

\* os.pipe() / os.open() return the lowest descriptor that is not open.
LowestFree(fds) == CHOOSE n \in 0 .. Cardinality(fds) :
                      n \notin fds /\ \A m \in 0 .. n - 1 : m \in fds

(* ---- environment construction ---- *)
MakeflagsPipe(jc, r, w) ==
  <<" -j">> \o Dec(jc) \o <<" --jobserver-fds=">> \o Dec(r) \o <<",">>
    \o Dec(w) \o <<" --jobserver-auth=">> \o Dec(r) \o <<",">> \o Dec(w)

MakeflagsFifo(jc, path) ==
  <<" -j">> \o Dec(jc) \o <<" --jobserver-auth=fifo:", path>>

\* The string of create_sem is not an f-string: the braces stay literal.
MakeflagsSem(jc, name) ==
  <<" -j", "{job_count}", " --jobserver-auth=", name>>

\* Mutant: the environment is replaced by the fragment, not merged with it.
WithMakeflags_Replace(e, value) ==
  [v \in DOMAIN e |-> IF v = "MAKEFLAGS" THEN value ELSE << >>]

\* env = dict(os.environ); env["MAKEFLAGS"] = value
WithMakeflags(e, value) == [e EXCEPT !["MAKEFLAGS"] = value]

(* ---- Win32 semaphore ---- *)
\* CreateSemaphore(attributes, InitialCount, MaximumCount, name): the call
\* fails unless 0 <= InitialCount <= MaximumCount and MaximumCount > 0.
CreateSemaphore(initial, maximum) ==
  IF initial >= 0 /\ maximum > 0 /\ initial <= maximum
  THEN <<[count |-> initial, max |-> maximum]>>
  ELSE << >>

\* The (InitialCount, MaximumCount) arguments create_sem passes.
SemArgs(jc) == <<jc, jc - 1>>

(* ---- token check ---- *)
\* The blocking fill of create_pipe returns only if all bytes fit.
BlockingWriteReturns(n) == n <= PipeCap
\* The non-blocking fill of create_fifo writes what fits; the count that
\* os.write returns is dropped.
NonBlockingWrite(n) == Min(n, PipeCap)

\* Mutant: a job count of 0 no longer disables the feature.
FeatureDisabled_Strict(jc) == jc < 0

\* if job_count <= 0: the feature is disabled.
FeatureDisabled(jc) == jc <= 0

\* Mutant: the check no longer looks at the child's exit code.
ShouldCheck_IgnoreExit(ec, chk) == chk

\* if exit_code == 0 and args.check:
ShouldCheck(ec, chk) == ec = 0 /\ chk

\* Mutant: a pool of capacity 1 is checked like any other.
NothingToCheck_Zero(jc) == jc <= 0

\* if job_count <= 1: nothing to check, the descriptor is not read.
NothingToCheck(jc) == jc <= 1

\* Mutant: extra tokens are no longer an error.
Classify_NoExtra(read, expected) ==
  IF read < expected THEN [rc |-> 1, report |-> <<"missing", expected - read>>]
  ELSE [rc |-> 0, report |-> << >>]

\* The classification of check_pipe_tokens after the read loop.
Classify(read, expected) ==
  IF read < expected THEN [rc |-> 1, report |-> <<"missing", expected - read>>]
  ELSE IF read > expected THEN [rc |-> 1, report |-> <<"extra", read - expected>>]
  ELSE [rc |-> 0, report |-> << >>]

RECURSIVE ReadLoop(_, _)
\* The read loop of check_pipe_tokens on a non-blocking descriptor whose
\* buffer holds st bytes, n bytes read so far: os.read(read_fd, 1) takes one
\* byte; on an empty buffer it raises BlockingIOError and the loop ends.
ReadLoop(st, n) ==
  IF st = 0 THEN [read |-> n, left |-> st]
  ELSE ReadLoop(st - 1, n + 1)

\* check_pipe_tokens(read_fd, job_count) on a store holding st tokens: the
\* return code, the number of tokens read (<< >> when the store is not
\* read), what is left in the store and the message printed.
CheckPipeTokens(st, jc) ==
  IF NothingToCheck(jc)
  THEN [rc |-> 0, read |-> << >>, left |-> st, report |-> << >>]
  ELSE LET d == ReadLoop(st, 0)
           c == Classify(d.read, jc - 1)
       IN [rc |-> c.rc, read |-> <<d.read>>, left |-> d.left,
           report |-> c.report]

VARIABLES
  platform,    \* "posix" or "windows" (_IS_WINDOWS)
  job_count,   \* args.job_count
  check,       \* args.check
  pipe,        \* args.pipe
  fifo,        \* args.fifo
  environ,     \* os.environ of the manager
  pc,          \* position of main(): start, created, running, exited,
               \* finally, done (returned), raised (exception escaped),
               \* hung (blocked for ever in a write)
  exc,         \* chain of exceptions raised so far; the last one propagates
  backend,     \* the backend constructed: "", "none", "pipe", "fifo", "sem"
  fs,          \* what is at the FIFO path: absent, stale, fifo (made by
               \* this run), other (made by the second invocation)
  fifo_made,   \* os.mkfifo of this run succeeded
  openFds,     \* descriptors open in the manager process
  read_fd, write_fd, delete_fifo, env, ret, exit_code,   \* locals of main()
  sem,         \* the Win32 semaphore: << >> or <<[count, max]>>
  store,       \* tokens (bytes) in the pipe/FIFO buffer
  held,        \* tokens each client holds
  extra,       \* releases made by a client that held no token
  childEnv,    \* << >> or <<environment the child was started with>>
  passFds,     \* descriptors handed to the child by pass_fds
  launched,    \* number of times the child command was started
  read_count,  \* << >> or <<tokens the manager read from the store>>
  report,      \* << >> or the mismatch printed: <<kind, count>>
  stale_tokens, \* tokens in the buffer of the FIFO a crashed run left behind
  other,       \* a second invocation on the same FIFO path: idle, created,
               \* done, raised
  targets,     \* generate_trace.py: the sorted targets log_to_dicts has
               \* still to give to Threads.alloc
  workers,     \* generate_trace.py: Threads.workers
  placed       \* generate_trace.py: the targets given to Threads.alloc so
               \* far, each with the worker index it got

args == <<platform, job_count, check, pipe, fifo, environ>>
locals == <<read_fd, write_fd, delete_fifo, env, ret, exit_code>>
os == <<fs, fifo_made, openFds, sem, store>>
child == <<held, extra, childEnv, passFds, launched>>
\* What no step of one run of main() changes.
world == <<stale_tokens, other, targets, workers, placed>>
vars == <<world, args, pc, exc, backend, locals, os, child, read_count, report>>

RECURSIVE SumHeld(_)
SumHeld(cs) ==
  IF cs = {} THEN 0
  ELSE LET c == CHOOSE x \in cs : TRUE IN held[c] + SumHeld(cs \ {c})

\* Tokens acquired by the child tree and not released.
Leaked == SumHeld(Clients)

Init ==
  /\ platform \in {"posix", "windows"}
  /\ job_count \in JobCounts
  /\ check \in BOOLEAN
  /\ pipe \in BOOLEAN
  /\ fifo \in {"", FifoPath}
  \* --pipe and --fifo are mutually exclusive and exist on POSIX only
  /\ pipe => fifo = FifoPath
  /\ platform = "windows" => (~pipe /\ fifo = FifoPath)
  /\ environ \in Environs
  /\ pc = "start"
  /\ exc = << >>
  /\ backend = ""
  /\ fs \in {"absent", "stale"}
  /\ fifo_made = FALSE
  /\ openFds = StdFds
  /\ read_fd = Unbound /\ write_fd = Unbound
  /\ delete_fifo = ""
  /\ env = << >> /\ ret = << >> /\ exit_code = << >>
  /\ sem = << >>
  /\ store = 0
  /\ held = [c \in Clients |-> 0]
  /\ extra = 0
  /\ childEnv = << >>
  /\ passFds = {}
  /\ launched = 0
  /\ read_count = << >>
  /\ report = << >>
  /\ stale_tokens \in (IF fs = "stale" THEN 0 .. 1 ELSE {0})
  /\ other = "idle"
  /\ targets = << >>
  /\ workers = << >>
  /\ placed = << >>

(* ---- pass-through mode (job_count <= 0) ---- *)
RunDirect ==
  /\ pc = "start" /\ FeatureDisabled(job_count)
  /\ backend' = "none"
  /\ childEnv' = <<environ>>
  /\ launched' = launched + 1
  /\ pc' = "running"
  /\ UNCHANGED <<world, args, exc, locals, os, held, extra, passFds, read_count, report>>

RunDirectFails ==
  /\ pc = "start" /\ FeatureDisabled(job_count)
  /\ backend' = "none"
  /\ exc' = Append(exc, "OSError(subprocess.run)")
  /\ pc' = "raised"
  /\ UNCHANGED <<world, args, locals, os, child, read_count, report>>

(* ---- Windows: semaphore-backed pool ---- *)
\* ReleaseSemaphore(handle, 1): << >> when the count would pass the maximum
\* (the call raises), else <<previous count, semaphore after the release>>.
ReleaseSemaphore(s) ==
  IF s.count + 1 > s.max THEN << >>
  ELSE <<s.count, [s EXCEPT !.count = s.count + 1]>>

\* check_sem_count(handle, job_count) on semaphore s; raised is TRUE when
\* ReleaseSemaphore raises.
CheckSemCount(s, jc) ==
  IF NothingToCheck(jc)
  THEN [raised |-> FALSE, rc |-> 0, read |-> << >>, sem |-> s, report |-> << >>]
  ELSE LET r == ReleaseSemaphore(s)
       IN IF r = << >>
          THEN [raised |-> TRUE, rc |-> 0, read |-> << >>, sem |-> s,
                report |-> << >>]
          ELSE LET c == Classify(r[1], jc - 1)
               IN [raised |-> FALSE, rc |-> c.rc, read |-> <<r[1]>>,
                   sem |-> r[2], report |-> c.report]

\* handle, env = create_sem(args.name, job_count); outside the try block.
CreateSem ==
  /\ pc = "start" /\ ~FeatureDisabled(job_count) /\ platform = "windows"
  /\ LET a == SemArgs(job_count)
         h == CreateSemaphore(a[1], a[2])
     IN IF h = << >>
        THEN /\ exc' = Append(exc, "pywintypes.error(CreateSemaphore)")
             /\ pc' = "raised"
             /\ UNCHANGED <<backend, sem, env>>
        ELSE /\ sem' = h
             /\ env' = <<WithMakeflags(environ, MakeflagsSem(job_count, SemName))>>
             /\ backend' = "sem"
             /\ pc' = "created"
             /\ UNCHANGED exc
  /\ UNCHANGED <<world, args, read_fd, write_fd, delete_fifo, ret, exit_code, fs,
                 fifo_made, openFds, store, child, read_count, report>>

(* ---- POSIX: pipe-backed pool ---- *)
\* create_pipe: os.pipe(), then the blocking fill, then the environment.
CreatePipe ==
  /\ pc = "start" /\ ~FeatureDisabled(job_count) /\ platform = "posix" /\ pipe
  /\ exit_code' = <<0>>
  /\ LET r == LowestFree(openFds)
         w == LowestFree(openFds \cup {r})
     IN /\ openFds' = openFds \cup {r, w}
        /\ IF BlockingWriteReturns(job_count - 1)
           THEN /\ store' = job_count - 1
                /\ read_fd' = r /\ write_fd' = w
                /\ env' = <<WithMakeflags(environ, MakeflagsPipe(job_count, r, w))>>
                /\ backend' = "pipe"
                /\ pc' = "created"
           ELSE \* os.write blocks once the buffer is full: nobody reads
                /\ store' = PipeCap
                /\ pc' = "hung"
                /\ UNCHANGED <<read_fd, write_fd, env, backend>>
  /\ UNCHANGED <<world, args, exc, delete_fifo, ret, fs, fifo_made, sem, child,
                 read_count, report>>

\* os.pipe() raises (no descriptor left).
CreatePipeFails ==
  /\ pc = "start" /\ ~FeatureDisabled(job_count) /\ platform = "posix" /\ pipe
  /\ exit_code' = <<0>>
  /\ exc' = Append(exc, "OSError(os.pipe)")
  /\ pc' = "finally"
  /\ UNCHANGED <<world, args, backend, read_fd, write_fd, delete_fifo, env, ret, os,
                 child, read_count, report>>

(* ---- POSIX: FIFO-backed pool ---- *)
\* create_fifo with every call succeeding.
CreateFifo ==
  /\ pc = "start" /\ ~FeatureDisabled(job_count) /\ platform = "posix"
  /\ ~pipe /\ fifo # ""
  /\ exit_code' = <<0>>
  /\ fs' = "fifo"
  /\ fifo_made' = TRUE
  /\ LET r == LowestFree(openFds)
         w == LowestFree(openFds \cup {r})
     IN /\ openFds' = openFds \cup {r, w}
        /\ read_fd' = r /\ write_fd' = w
  /\ store' = NonBlockingWrite(job_count - 1)
  /\ env' = <<WithMakeflags(environ, MakeflagsFifo(job_count, fifo))>>
  /\ backend' = "fifo"
  /\ pc' = "created"
  /\ UNCHANGED <<world, args, exc, delete_fifo, ret, sem, child, read_count, report>>

FifoFailures == {"remove", "mkfifo", "open_r", "open_w"}

\* create_fifo with the call named by f raising OSError.
CreateFifoFails(f) ==
  /\ pc = "start" /\ ~FeatureDisabled(job_count) /\ platform = "posix"
  /\ ~pipe /\ fifo # ""
  /\ f = "remove" => fs # "absent"
  /\ exit_code' = <<0>>
  /\ fs' = CASE f = "remove" -> fs
             [] f = "mkfifo" -> "absent"
             [] OTHER -> "fifo"
  /\ fifo_made' = (f \in {"open_r", "open_w"})
  \* the read end opened inside create_fifo is never handed to main()
  /\ openFds' = IF f = "open_w" THEN openFds \cup {LowestFree(openFds)}
                ELSE openFds
  /\ exc' = Append(exc, CASE f = "remove" -> "OSError(os.remove)"
                          [] f = "mkfifo" -> "OSError(os.mkfifo)"
                          [] OTHER -> "OSError(os.open)")
  /\ pc' = "finally"
  /\ UNCHANGED <<world, args, backend, read_fd, write_fd, delete_fifo, env, ret, sem,
                 store, child, read_count, report>>

\* --fifo "" : neither branch of the if/elif runs and ret.returncode raises.
NoBackend ==
  /\ pc = "start" /\ ~FeatureDisabled(job_count) /\ platform = "posix"
  /\ ~pipe /\ fifo = ""
  /\ exit_code' = <<0>>
  /\ exc' = Append(exc, "UnboundLocalError")
  /\ pc' = "finally"
  /\ UNCHANGED <<world, args, backend, read_fd, write_fd, delete_fifo, env, ret, os,
                 child, read_count, report>>

(* ---- the child command ---- *)
\* Mutant: the child is started before the pool is created.
CanLaunch_Early(p) == p \in {"start", "created"}

\* subprocess.run follows the create call of the chosen backend.
CanLaunch(p) == p = "created"

\* subprocess.run(args.command, env=env, ...) starts the child.
Launch ==
  /\ CanLaunch(pc)
  /\ childEnv' = env
  /\ passFds' = IF backend = "pipe" THEN {read_fd, write_fd} ELSE {}
  /\ launched' = launched + 1
  /\ pc' = "running"
  /\ UNCHANGED <<world, args, exc, backend, locals, os, held, extra, read_count, report>>

\* subprocess.run raises: the command cannot be started.
LaunchFails ==
  /\ pc = "created"
  /\ exc' = Append(exc, "OSError(subprocess.run)")
  /\ pc' = "finally"
  /\ UNCHANGED <<world, args, backend, locals, os, child, read_count, report>>

TokenStore == pc = "running" /\ backend \in {"pipe", "fifo", "sem"}

\* Tokens available in the backing store.
Available == IF backend = "sem" THEN sem[1].count ELSE store
\* Most tokens the backing store takes.
Room == IF backend = "sem" THEN sem[1].max ELSE PipeCap

\* The backing store after its token count became n.
StoreSet(n) ==
  IF backend = "sem"
  THEN /\ sem' = <<[sem[1] EXCEPT !.count = n]>>
       /\ UNCHANGED store
  ELSE /\ store' = n
       /\ UNCHANGED sem

\* A client takes one token (reads a byte / waits on the semaphore).
Acquire(c) ==
  /\ TokenStore
  /\ Available > 0
  /\ StoreSet(Available - 1)
  /\ held' = [held EXCEPT ![c] = @ + 1]
  /\ UNCHANGED <<world, args, pc, exc, backend, locals, fs, fifo_made, openFds,
                 extra, childEnv, passFds, launched, read_count, report>>

\* A client gives back a token it holds (writes a byte / releases).
Release(c) ==
  /\ TokenStore
  /\ held[c] > 0
  /\ Available < Room
  /\ StoreSet(Available + 1)
  /\ held' = [held EXCEPT ![c] = @ - 1]
  /\ UNCHANGED <<world, args, pc, exc, backend, locals, fs, fifo_made, openFds,
                 extra, childEnv, passFds, launched, read_count, report>>

\* A broken client gives back a token although it holds none.
ReleaseExtra(c) ==
  /\ TokenStore
  /\ held[c] = 0
  /\ extra < MaxExtra
  /\ Available < Room
  /\ StoreSet(Available + 1)
  /\ extra' = extra + 1
  /\ UNCHANGED <<world, args, pc, exc, backend, locals, fs, fifo_made, openFds,
                 held, childEnv, passFds, launched, read_count, report>>

\* subprocess.run returns: the child command exited with status code.
ChildExit(code) ==
  /\ pc = "running"
  /\ ret' = <<code>>
  /\ pc' = "exited"
  /\ UNCHANGED <<world, args, exc, backend, read_fd, write_fd, delete_fifo, env,
                 exit_code, os, child, read_count, report>>

\* The manager is interrupted while it waits: subprocess.run kills the child
\* and re-raises.
Interrupt ==
  /\ pc = "running"
  /\ exc' = Append(exc, "KeyboardInterrupt")
  /\ pc' = IF backend = "none" THEN "raised" ELSE "finally"
  /\ UNCHANGED <<world, args, backend, locals, os, child, read_count, report>>

(* ---- after the child: exit code and optional verification ---- *)
\* exit_code = ret.returncode  (pass-through branch; main() then returns)
AfterChildDirect ==
  /\ pc = "exited" /\ backend = "none"
  /\ exit_code' = ret
  /\ pc' = "done"
  /\ UNCHANGED <<world, args, exc, backend, read_fd, write_fd, delete_fifo, env, ret,
                 os, child, read_count, report>>

\* The rest of the try block.  POSIX: delete_fifo = args.fifo (FIFO only);
\* exit_code = ret.returncode; if exit_code == 0 and args.check:
\* check_pipe_tokens.  Windows: the same with check_sem_count.
AfterChild ==
  /\ pc = "exited" /\ backend \in {"pipe", "fifo", "sem"}
  /\ delete_fifo' = IF backend = "fifo" THEN fifo ELSE delete_fifo
  /\ IF ~ShouldCheck(ret[1], check)
     THEN /\ exit_code' = ret
          /\ UNCHANGED <<read_count, store, sem, report, exc>>
     ELSE IF backend = "sem"
     THEN LET r == CheckSemCount(sem[1], job_count)
          IN /\ exit_code' = IF r.raised THEN ret ELSE <<r.rc>>
             /\ exc' = IF r.raised
                        THEN Append(exc, "pywintypes.error(ReleaseSemaphore)")
                        ELSE exc
             /\ read_count' = r.read
             /\ sem' = <<r.sem>>
             /\ report' = r.report
             /\ UNCHANGED store
     ELSE LET r == CheckPipeTokens(store, job_count)
          IN /\ exit_code' = <<r.rc>>
             /\ read_count' = r.read
             /\ store' = r.left
             /\ report' = r.report
             /\ UNCHANGED <<sem, exc>>
  /\ pc' = "finally"
  /\ UNCHANGED <<world, args, backend, read_fd, write_fd, env, ret, fs, fifo_made,
                 openFds, child>>

\* The finally block.  Windows: win32api.CloseHandle(handle).  POSIX:
\* os.close(read_fd); os.close(write_fd); if delete_fifo: os.remove(...).
\* An exception raised here replaces the pending one.
Finally ==
  /\ pc = "finally"
  /\ IF platform = "windows"
     THEN /\ sem' = << >>
          /\ pc' = IF exc = << >> THEN "done" ELSE "raised"
          /\ UNCHANGED <<exc, fs, openFds, store>>
     ELSE IF read_fd = Unbound
     THEN /\ exc' = Append(exc, "UnboundLocalError")
          /\ pc' = "raised"
          /\ UNCHANGED <<fs, openFds, store, sem>>
     ELSE /\ openFds' = openFds \ {read_fd, write_fd}
          \* the buffer goes away with its last descriptor
          /\ store' = 0
          /\ UNCHANGED sem
          /\ IF delete_fifo # "" /\ fs = "absent"
             THEN /\ exc' = Append(exc, "FileNotFoundError")
                  /\ pc' = "raised"
                  /\ UNCHANGED fs
             ELSE /\ fs' = IF delete_fifo # "" THEN "absent" ELSE fs
                  /\ pc' = IF exc = << >> THEN "done" ELSE "raised"
                  /\ UNCHANGED exc
  /\ UNCHANGED <<world, args, backend, locals, fifo_made, child, read_count, report>>

Next ==
  \/ RunDirect
  \/ RunDirectFails
  \/ CreateSem
  \/ CreatePipe
  \/ CreatePipeFails
  \/ CreateFifo
  \/ \E f \in FifoFailures : CreateFifoFails(f)
  \/ NoBackend
  \/ Launch
  \/ LaunchFails
  \/ \E c \in Clients : Acquire(c)
  \/ \E c \in Clients : Release(c)
  \/ \E c \in Clients : ReleaseExtra(c)
  \/ \E code \in ExitCodes : ChildExit(code)
  \/ Interrupt
  \/ AfterChildDirect
  \/ AfterChild
  \/ Finally

Spec == Init /\ [][Next]_vars

TypeOK ==
  /\ pc \in {"start", "created", "running", "exited", "finally", "done",
             "raised", "hung"}
  /\ backend \in {"", "none", "pipe", "fifo", "sem"}
  /\ fs \in {"absent", "stale", "fifo", "other"}
  /\ other \in {"idle", "created", "done", "raised"}
  /\ store \in 0 .. PipeCap
  /\ extra \in 0 .. MaxExtra
  /\ launched \in 0 .. 1

(* ---- the environment each backend builds ---- *)
\* The backend main() selects for the arguments given.
SelectedBackend ==
  IF platform = "windows" THEN "sem"
  ELSE IF pipe THEN "pipe"
  ELSE IF fifo # "" THEN "fifo"
  ELSE ""

\* The tail of create_sem / create_pipe / create_fifo once the OS object
\* exists: env = dict(os.environ); env["MAKEFLAGS"] = ...; return ..., env.
BuildEnv ==
  /\ pc = "start" /\ ~FeatureDisabled(job_count)
  /\ SelectedBackend # ""
  /\ backend' = SelectedBackend
  /\ IF platform = "windows"
     THEN /\ env' = <<WithMakeflags(environ, MakeflagsSem(job_count, SemName))>>
          /\ UNCHANGED <<openFds, read_fd, write_fd>>
     ELSE LET r == LowestFree(openFds)
              w == LowestFree(openFds \cup {r})
          IN /\ openFds' = openFds \cup {r, w}
             /\ read_fd' = r /\ write_fd' = w
             /\ env' = <<WithMakeflags(environ,
                           IF pipe THEN MakeflagsPipe(job_count, r, w)
                           ELSE MakeflagsFifo(job_count, fifo))>>
  /\ pc' = "created"
  /\ UNCHANGED <<world, args, exc, delete_fifo, ret, exit_code, fs, fifo_made,
                 sem, store, child, read_count, report>>

\* The environment construction of the three backends followed by the
\* launch, for every argument combination.
EnvSpec == Init /\ [][BuildEnv \/ Launch]_vars

(* ---- a second invocation on the same FIFO path ---- *)
\* The second invocation's create_fifo: if os.path.exists(path):
\* os.remove(path); os.mkfifo(path).
OtherCreateFifo ==
  /\ other = "idle"
  /\ fs' = "other"
  /\ other' = "created"
  /\ UNCHANGED <<stale_tokens, targets, workers, placed, args, pc, exc, backend, locals,
                 fifo_made, openFds, sem, store, child, read_count, report>>

\* The second invocation's finally block after its child returned:
\* if delete_fifo: os.remove(delete_fifo).
OtherClose ==
  /\ other = "created"
  /\ IF fs = "absent"
     THEN /\ other' = "raised"
          /\ UNCHANGED fs
     ELSE /\ fs' = "absent"
          /\ other' = "done"
  /\ UNCHANGED <<stale_tokens, targets, workers, placed, args, pc, exc, backend, locals,
                 fifo_made, openFds, sem, store, child, read_count, report>>

\* Two invocations with the same --fifo path, their steps interleaved.
TwoSpec == Init /\ [][Next \/ OtherCreateFifo \/ OtherClose]_vars

(* ---- the token count of each backend on a given store ---- *)
\* Semaphores as CreateSemaphore makes them: a maximum and a count within it.
Semaphores ==
  UNION { { <<[count |-> c, max |-> m]>> : c \in 0 .. m } : m \in 1 .. MaxJobs }

\* The state in which subprocess.run has just returned 0 with --check given,
\* for each backend and each content of its store.
InitDrain ==
  /\ platform \in {"posix", "windows"}
  /\ job_count \in 1 .. MaxJobs
  /\ check = TRUE
  /\ pipe \in BOOLEAN
  /\ fifo = FifoPath
  /\ platform = "windows" => ~pipe
  /\ environ \in Environs
  /\ pc = "exited"
  /\ exc = << >>
  /\ backend = SelectedBackend
  /\ fs = IF backend = "fifo" THEN "fifo" ELSE "absent"
  /\ fifo_made = (backend = "fifo")
  /\ LET r == LowestFree(StdFds)
         w == LowestFree(StdFds \cup {r})
     IN IF platform = "posix"
        THEN /\ openFds = StdFds \cup {r, w}
             /\ read_fd = r /\ write_fd = w
             /\ passFds = IF pipe THEN {r, w} ELSE {}
             /\ env = <<WithMakeflags(environ,
                          IF pipe THEN MakeflagsPipe(job_count, r, w)
                          ELSE MakeflagsFifo(job_count, fifo))>>
             /\ exit_code = <<0>>
             /\ sem = << >>
             /\ store \in 0 .. PipeCap
        ELSE /\ openFds = StdFds
             /\ read_fd = Unbound /\ write_fd = Unbound
             /\ passFds = {}
             /\ env = <<WithMakeflags(environ, MakeflagsSem(job_count, SemName))>>
             /\ exit_code = << >>
             /\ sem \in Semaphores
             /\ store = 0
  /\ childEnv = env
  /\ delete_fifo = ""
  /\ ret = <<0>>
  /\ held = [c \in Clients |-> 0]
  /\ extra = 0
  /\ launched = 1
  /\ read_count = << >>
  /\ report = << >>
  /\ stale_tokens = 0
  /\ other = "idle"
  /\ targets = << >>
  /\ workers = << >>
  /\ placed = << >>

\* The verification of each backend applied to every store content.
DrainSpec == InitDrain /\ [][AfterChild \/ Finally]_vars

(* ---- generate_trace.py: placing targets on worker rows ---- *)
\* A line of a .ninja_log: start and end time in milliseconds.
LogTargets == [start : 0 .. MaxTime, end : 0 .. MaxTime]

\* The logs read: up to MaxTargets commands.
Logs == UNION { [1 .. n -> LogTargets] : n \in 0 .. MaxTargets }

\* One step of the stable sort: t goes behind every target that does not
\* start later than it.
RECURSIVE InsertByStart(_, _)
InsertByStart(t, sorted) ==
  IF sorted = << >> THEN <<t>>
  ELSE IF Head(sorted).start <= t.start
       THEN <<Head(sorted)>> \o InsertByStart(t, Tail(sorted))
       ELSE <<t>> \o sorted

\* read_targets: sorted(targets.values(), key=lambda job: job.start).
RECURSIVE SortedByStart(_)
SortedByStart(log) ==
  IF log = << >> THEN << >>
  ELSE InsertByStart(log[Len(log)], SortedByStart(SubSeq(log, 1, Len(log) - 1)))

\* Mutant: a worker counts as free if it is free by the time the target ends.
WorkerFree_Late(busyUntil, target) == busyUntil <= target.end

\* Threads.alloc: if self.workers[worker] <= target.start.
WorkerFree(busyUntil, target) == busyUntil <= target.start

\* Threads.alloc: the for loop from index w on; the index it returns, or
\* len(self.workers) when it falls through to the append.
RECURSIVE Scan(_, _, _)
Scan(ws, w, target) ==
  IF w >= Len(ws) THEN Len(ws)
  ELSE IF WorkerFree(ws[w + 1], target) THEN w
  ELSE Scan(ws, w + 1, target)

\* Threads.workers after alloc returned index w for target.
Occupy(ws, w, target) ==
  IF w < Len(ws) THEN [ws EXCEPT ![w + 1] = target.end]
  ELSE Append(ws, target.end)

\* log_to_dicts: one turn of the loop, tid = pid + threads.alloc(target).
Alloc ==
  /\ targets # << >>
  /\ LET target == Head(targets)
         w == Scan(workers, 0, target)
     IN /\ workers' = Occupy(workers, w, target)
        /\ placed' = Append(placed, [start |-> target.start,
                                     end |-> target.end, worker |-> w])
  /\ targets' = Tail(targets)
  /\ UNCHANGED <<stale_tokens, other, args, pc, exc, backend, locals, os,
                 child, read_count, report>>

\* log_to_dicts at its first turn: threads = Threads(), the targets as
\* read_targets returned them; no jobserver pool is involved.
InitTrace ==
  /\ targets \in { SortedByStart(log) : log \in Logs }
  /\ workers = << >>
  /\ placed = << >>
  /\ platform = "posix" /\ job_count = 0 /\ check = FALSE /\ pipe = FALSE
  /\ fifo = FifoPath
  /\ environ \in Environs
  /\ pc = "start"
  /\ exc = << >>
  /\ backend = ""
  /\ fs = "absent"
  /\ fifo_made = FALSE
  /\ openFds = StdFds
  /\ read_fd = Unbound /\ write_fd = Unbound
  /\ delete_fifo = ""
  /\ env = << >> /\ ret = << >> /\ exit_code = << >>
  /\ sem = << >>
  /\ store = 0
  /\ held = [c \in Clients |-> 0]
  /\ extra = 0
  /\ childEnv = << >>
  /\ passFds = {}
  /\ launched = 0
  /\ read_count = << >>
  /\ report = << >>
  /\ stale_tokens = 0
  /\ other = "idle"

TraceSpec == InitTrace /\ [][Alloc]_vars

(* ======================================================================= *)
(* Claims                                                                  *)
(* ======================================================================= *)

\* main() is over: it returned or an exception escaped.
Terminated == pc \in {"done", "raised"}

\* C1: once create_fifo has returned the FIFO-backed pool, every way main()
\* leaves the POSIX branch ends with both descriptors closed and the FIFO
\* path removed.
C1_FifoGoneOnEveryExit ==
  (backend = "fifo" /\ Terminated) => (fs = "absent" /\ openFds = StdFds)

\* C2: the exit code main() returns is the child's exit code, except when
\* --check was given, the child exited 0 and the tokens counted differ from
\* capacity-1: then, and only then, it is non-zero although the child
\* returned 0.
C2_Mismatch ==
  /\ check /\ ret = <<0>>
  /\ read_count # << >> /\ read_count[1] # job_count - 1

C2_ExitCode ==
  pc = "done" => IF C2_Mismatch THEN exit_code[1] # 0 ELSE exit_code = ret

C2_Witness ==
  /\ pc = "done" /\ backend = "fifo" /\ C2_Mismatch
  /\ read_count[1] > job_count - 1 /\ exit_code = <<1>>

\* C3: for capacity N > 1, right after the backend's create operation has
\* returned and before any client touched the store, exactly N-1 tokens are
\* available in it.
C3_CreatedHoldsAllTokens ==
  (pc = "created" /\ job_count > 1) => Available = job_count - 1

\* C4: with --check and N > 1, a child tree that exits 0 holding k >= 1
\* tokens it never released makes the check count N-1-k tokens and report
\* exactly k missing, and the exit status is non-zero.
C4_MissingReported ==
  (/\ pc = "done" /\ check /\ job_count > 1 /\ ret = <<0>>
   /\ extra = 0 /\ Leaked >= 1)
  => /\ read_count = <<job_count - 1 - Leaked>>
     /\ report = <<"missing", Leaked>>
     /\ exit_code # <<0>>

\* C5: with --check and N > 1, a child tree that exits 0 having released
\* k >= 1 tokens it never acquired makes the check report exactly k extra
\* tokens with a non-zero exit status, on every backend: on the semaphore
\* backend too the run gets to a result and the semaphore calls do not raise.
C5_ExtraReported ==
  /\ (/\ pc = "done" /\ check /\ job_count > 1 /\ ret = <<0>>
      /\ Leaked = 0 /\ extra >= 1)
     => (report = <<"extra", extra>> /\ exit_code # <<0>>)
  /\ (platform = "windows" /\ check /\ job_count > 1 /\ exc # << >>)
     => exc[Len(exc)] \notin {"pywintypes.error(CreateSemaphore)",
                              "pywintypes.error(ReleaseSemaphore)"}

\* C6: whatever the interleaving of the clients' acquires and releases, if
\* every client released only tokens it held and holds none when the child
\* exits 0, the check counts exactly N-1 tokens and reports no mismatch.
C6_WellBehavedPasses ==
  (/\ pc = "done" /\ check /\ job_count > 1 /\ ret = <<0>>
   /\ extra = 0 /\ Leaked = 0)
  => /\ read_count = <<job_count - 1>>
     /\ report = << >>
     /\ exit_code = <<0>>

\* C7: between creation and teardown, with clients that release only tokens
\* they hold, the tokens in the store plus the tokens held by clients are
\* N-1, the store never holds more than N-1, and at most N units of work
\* run at once.
C7_Conservation ==
  (/\ pc \in {"created", "running", "exited"}
   /\ backend \in {"pipe", "fifo"} /\ extra = 0)
  => /\ store + Leaked = job_count - 1
     /\ store <= job_count - 1
     /\ Leaked + 1 <= job_count

\* C8: the manager reads the store only when --check was given and the
\* child exited 0; otherwise nothing is verified or reported and the exit
\* code is the child's, whatever the clients leaked or added.
C8_CheckOnlyOnSuccess ==
  /\ read_count # << >> => (check /\ ret = <<0>>)
  /\ report # << >> => (check /\ ret = <<0>>)
  /\ (pc = "done" /\ ~(check /\ ret = <<0>>)) => exit_code = ret

C8_Witness ==
  /\ pc = "done" /\ check /\ ret = <<2>> /\ job_count > 1
  /\ Leaked + extra > 0 /\ store # job_count - 1
  /\ read_count = << >> /\ exit_code = <<2>>

\* C9: with a job count <= 0 no step creates a pipe, FIFO or semaphore or
\* touches the filesystem or the descriptor table, whatever --fifo and
\* --check say; the child gets the manager's environment as it is, and the
\* exit code is the child's.
C9_PassThrough ==
  [][job_count <= 0 =>
       /\ fs' = fs /\ openFds' = openFds /\ store' = store /\ sem' = sem
       /\ ~fifo_made' /\ passFds' = {}
       /\ childEnv' # << >> => childEnv' = <<environ>>
       /\ read_count' = << >>
       /\ pc' = "done" => exit_code' = ret']_vars

C9_Witness ==
  /\ job_count <= 0 /\ pc = "done" /\ check /\ fs = "stale"
  /\ childEnv = <<environ>> /\ environ["MAKEFLAGS"] # << >>
  /\ exit_code = <<2>>

\* The failures that pool creation raises.
CreationErrors ==
  {"OSError(os.pipe)", "OSError(os.remove)", "OSError(os.mkfifo)",
   "OSError(os.open)", "pywintypes.error(CreateSemaphore)"}

\* C10: if pool creation fails at any step, the child is never launched,
\* the failure reported is the creation failure itself, and nothing partial
\* survives: no FIFO made by this run, no descriptor left open.
C10_CreationFailureIsClean ==
  (exc # << >> /\ exc[1] \in CreationErrors)
  => /\ launched = 0
     /\ pc = "raised" => /\ exc[Len(exc)] = exc[1]
                         /\ fs # "fifo"
                         /\ openFds = StdFds

\* v ends with the pieces of suffix.
EndsWith(v, suffix) ==
  /\ Len(v) >= Len(suffix)
  /\ SubSeq(v, Len(v) - Len(suffix) + 1, Len(v)) = suffix

\* C11: for every backend and N > 0, the MAKEFLAGS value given to the child
\* holds "-j" followed by N in decimal, and ends with the pool address in
\* the backend's syntax: the descriptor pair passed to the child, fifo:<path>
\* or the bare semaphore name.
C11_Makeflags ==
  (childEnv # << >> /\ job_count > 0) =>
    LET m == childEnv[1]["MAKEFLAGS"]
        n == Len(Dec(job_count))
    IN /\ Len(m) > n + 1
       /\ m[1] = " -j"
       /\ SubSeq(m, 2, n + 1) = Dec(job_count)
       /\ backend = "pipe" =>
            /\ passFds = {read_fd, write_fd}
            /\ EndsWith(m, <<" --jobserver-auth=">> \o Dec(read_fd) \o <<",">>
                             \o Dec(write_fd))
       /\ backend = "fifo" => EndsWith(m, <<" --jobserver-auth=fifo:", fifo>>)
       /\ backend = "sem" => EndsWith(m, <<" --jobserver-auth=", SemName>>)

\* C12: when two invocations share a FIFO path and their create, run and
\* close steps interleave, no teardown removes the FIFO the other invocation
\* made, and no teardown fails because its FIFO is already gone.
C12_OwnFifoOnly ==
  [][/\ ~(pc = "finally" /\ pc' # "finally" /\ fs = "other" /\ fs' # "other")
     /\ ~(other = "created" /\ other' # "created" /\ fs = "fifo" /\ fs' # "fifo")
     /\ other' # "raised"
     /\ exc' # << >> => exc'[Len(exc')] # "FileNotFoundError"]_vars

\* C13: creating a FIFO-backed pool where a crashed run left a named pipe
\* replaces the stale object by a fresh FIFO made by this run, and the new
\* pool holds exactly N-1 tokens whatever the stale object held.
C13_StaleReplaced ==
  [][(pc = "start" /\ fs = "stale" /\ pc' = "created" /\ backend' = "fifo")
       => (fs' = "fifo" /\ fifo_made' /\ store' = job_count - 1)]_vars

\* C14: the semaphore is created with maximum count N and initial count
\* N-1, so for every N >= 1 its creation is valid and its count stays
\* within 0..N.
C14_SemaphoreBounds ==
  (platform = "windows" /\ job_count >= 1) =>
    /\ exc # << >> => exc[1] # "pywintypes.error(CreateSemaphore)"
    /\ sem # << >> => (sem[1].max = job_count /\ sem[1].count \in 0 .. job_count)
    /\ pc = "created" => sem = <<[count |-> job_count - 1, max |-> job_count]>>

\* C15: with capacity 1 and --check the verification does nothing: whatever
\* the child tree did to the store, the store is not read, no mismatch is
\* reported and the exit code is the child's.
C15_SingleSlotNoCheck ==
  (job_count = 1 /\ check) =>
    /\ read_count = << >>
    /\ report = << >>
    /\ pc = "done" => exit_code = ret

C15_Witness ==
  /\ job_count = 1 /\ check /\ pc = "done" /\ backend = "fifo"
  /\ extra > 0 /\ ret = <<0>> /\ exit_code = <<0>>

\* C16: for capacity > 0 and every backend the child's environment is the
\* manager's with MAKEFLAGS set: every other variable reaches the child with
\* its value unchanged and no other variable is added or removed.
C16_EnvMerged ==
  (childEnv # << >> /\ job_count > 0) =>
    /\ DOMAIN childEnv[1] = DOMAIN environ
    /\ \A v \in DOMAIN environ \ {"MAKEFLAGS"} : childEnv[1][v] = environ[v]

C16_Witness ==
  /\ childEnv # << >> /\ job_count > 0 /\ backend = "fifo"
  /\ environ["MAKEFLAGS"] # << >>
  /\ childEnv[1]["MAKEFLAGS"] # environ["MAKEFLAGS"]
  /\ childEnv[1]["PATH"] = <<"/usr/bin">>

\* C17: on POSIX with a job count > 0, the step that leaves the start of
\* main() constructs exactly one backend (or fails constructing it): the pipe
\* backend exactly when --pipe was given, else the FIFO backend at the --fifo
\* path; with --pipe the filesystem is never touched; and the child is only
\* launched with a backend constructed.
C17_BackendSelection ==
  [][(platform = "posix" /\ job_count > 0) =>
       /\ pipe => fs' = fs
       /\ (pc = "start" /\ pc' # "start") =>
            \/ /\ pc' = "created"
               /\ backend' = (IF pipe THEN "pipe" ELSE "fifo")
               /\ ~pipe => /\ fs' = "fifo"
                           /\ EndsWith(env'[1]["MAKEFLAGS"], <<fifo>>)
            \/ pc' = "hung"
            \/ exc' # << >> /\ exc'[1] \in CreationErrors
       /\ launched' > 0 => backend' \in {"pipe", "fifo"}]_vars

\* C18: the count taken at verification ends without blocking or raising:
\* on a store holding c tokens it reads exactly c, its result is c, and the
\* store is left empty.
C18_DrainCounts ==
  [][(/\ pc = "exited" /\ pc' = "finally" /\ check /\ ret = <<0>>
      /\ job_count > 1 /\ backend \in {"pipe", "fifo", "sem"})
       => /\ read_count' = <<Available>>
          /\ Available' = 0
          /\ exc' = exc]_vars

\* The order in which main() moves through its steps.
LifecycleOrder ==
  { <<"start", "created">>, <<"start", "finally">>, <<"start", "raised">>,
    <<"start", "hung">>, <<"created", "running">>, <<"created", "finally">>,
    <<"running", "running">>, <<"running", "exited">>,
    <<"running", "finally">>, <<"exited", "finally">>,
    <<"finally", "done">>, <<"finally", "raised">> }

WellFormed ==
  /\ \A i \in 1 .. Len(placed) : placed[i].end >= placed[i].start
  /\ \A i \in 1 .. Len(placed) : \A j \in i + 1 .. Len(placed) :
       placed[i].start <= placed[j].start

\* The worker rows in use before the j-th target was placed.
RowsBefore(j) == { placed[i].worker : i \in 1 .. j - 1 }

\* Row w carries nothing that is still running when the j-th target starts.
FreeFor(w, j) ==
  \A i \in 1 .. j - 1 :
    placed[i].worker = w => placed[i].end <= placed[j].start

\* C20: on targets in non-decreasing start order with end >= start, two
\* targets given the same worker index never overlap (one ends at or before
\* the other starts), each target gets the lowest-indexed worker free at its
\* start, and a new worker (the next index) is added only when none is free.
C20_AllocPlacement ==
  WellFormed =>
    /\ \A i \in 1 .. Len(placed) : \A j \in i + 1 .. Len(placed) :
         placed[i].worker = placed[j].worker =>
           \/ placed[i].end <= placed[j].start
           \/ placed[j].end <= placed[i].start
    /\ \A j \in 1 .. Len(placed) :
         LET free == { w \in RowsBefore(j) : FreeFor(w, j) }
         IN IF free # {}
            THEN /\ placed[j].worker \in free
                 /\ \A w \in free : placed[j].worker <= w
            ELSE /\ placed[j].worker = Cardinality(RowsBefore(j))
                 /\ RowsBefore(j) = 0 .. placed[j].worker - 1

C20_Witness ==
  /\ WellFormed /\ targets = << >> /\ Len(placed) = 3
  /\ placed[1].worker = 0 /\ placed[2].worker = 1 /\ placed[3].worker = 0
  /\ placed[1].end > placed[1].start /\ placed[3].end > placed[3].start

====
